---- MODULE Spec2Model ----
(***************************************************************************)
(* Model of the two programs of the repository:                            *)
(*   Gemini-Multi-Purpose-App/Backend/main.py  the generation logger       *)
(*       (POST /api/log, POST /api/get_gcm_logs, image normalisation)      *)
(*   Amazon-Bedrock/test_bedrock.py            the one-shot streaming call *)
(*                                                                         *)
(* A Python str is a sequence of one-character strings, so that the prefix *)
(* tests, splits, strips and lower-casing of the code are computed and not *)
(* assumed.                                                                *)
(***************************************************************************)
EXTENDS Integers, Sequences, FiniteSets, TLC

VARIABLES
    store,      \* table "generations": sequence of rows, row i has id i
    files,      \* names of the files under uploads/images
    uuidSeq,    \* number of uuid4() values drawn so far
    logged,     \* ids of the rows persisted by log_generation
    calls,      \* numbers of POST /api/log and get_logs requests received
    resp,       \* the last HTTP response sent
    get,        \* the get_logs request in flight (between its two queries)
    pager,      \* a client reading the history page by page
    fnIn,       \* argument of the function under study (pure-function runs)
    fnOut,      \* its result
    bedrock     \* the Bedrock script: position, stream, output

vars == <<store, files, uuidSeq, logged, calls, resp, get, pager, fnIn, fnOut, bedrock>>

backendVars == <<store, files, uuidSeq, logged, calls, resp, get>>

None == <<"None">>

(***************************************************************************)
(* Bounds of the model.                                                    *)
(***************************************************************************)
MaxItems == 1       \* items per inputs / outputs list of a request
MaxLogs == 1        \* POST /api/log calls in a run
MaxGets == 1        \* get_logs calls in a run
MaxLegacy == 1      \* rows already in the table when the service starts
MaxPage == 2        \* largest page and size of a get_logs request
MaxEnv == 1         \* file writes of a request whose outcome the disk decides
MaxFrags == 2       \* fragments concatenated into a data string
MaxStream == 3      \* events of the Bedrock response stream

(***************************************************************************)
(* Strings.                                                                *)
(***************************************************************************)
S_dataimage == <<"d","a","t","a",":","i","m","a","g","e","/">>
S_uploadsimages == <<"/","u","p","l","o","a","d","s","/","i","m","a","g","e","s","/">>
S_uploads == <<"/","u","p","l","o","a","d","s">>
S_http == <<"h","t","t","p",":","/","/">>
S_https == <<"h","t","t","p","s",":","/","/">>
S_httpbare == <<"h","t","t","p">>
S_slash == <<"/">>
S_semicolon == <<";">>
S_comma == <<",">>
S_dot == <<".">>
S_png == <<"p","n","g">>
S_jpg == <<"j","p","g">>
S_jpeg == <<"j","p","e","g">>
S_webp == <<"w","e","b","p">>
S_gif == <<"g","i","f">>

UpperCase == <<"A","B","C","D","E","F","G","H","I","J","K","L","M","N","O","P","Q","R","S","T","U","V","W","X","Y","Z">>
LowerCase == <<"a","b","c","d","e","f","g","h","i","j","k","l","m","n","o","p","q","r","s","t","u","v","w","x","y","z">>
HexDigits == <<"0","1","2","3","4","5","6","7","8","9","a","b","c","d","e","f">>
Digits == {"0","1","2","3","4","5","6","7","8","9"}
WhiteSpace == {" ", "\t", "\n"}

Range(s) == {s[i] : i \in DOMAIN s}

\* the element of a one-element set: {e(x) : x \in {v}} names the value v
\* once, as an assignment to a local variable does
Only(S) == CHOOSE x \in S : TRUE

\* str.startswith
StartsWith(s, p) == Len(s) >= Len(p) /\ SubSeq(s, 1, Len(p)) = p

\* str.find, 1-based; 0 when sub does not occur
Find(s, sub) ==
    LET hits == {i \in 1..(Len(s) - Len(sub) + 1) : SubSeq(s, i, i + Len(sub) - 1) = sub}
    IN  IF hits = {} THEN 0 ELSE CHOOSE i \in hits : \A j \in hits : i <= j

\* the "in" operator on strings
Contains(s, sub) == Find(s, sub) # 0

\* text after position i
From(s, i) == SubSeq(s, i, Len(s))

\* str.split(sep): the list of the parts
RECURSIVE Split(_, _)
Split(s, sep) ==
    LET i == Find(s, sep)
    IN  IF i = 0 THEN <<s>>
        ELSE <<SubSeq(s, 1, i - 1)>> \o Split(From(s, i + Len(sep)), sep)

\* str.split(sep, 1): at most one cut
Split1(s, sep) ==
    LET i == Find(s, sep)
    IN  IF i = 0 THEN <<s>>
        ELSE <<SubSeq(s, 1, i - 1), From(s, i + Len(sep))>>

\* str.strip()
RECURSIVE LStrip(_)
LStrip(s) == IF s # <<>> /\ Head(s) \in WhiteSpace THEN LStrip(Tail(s)) ELSE s

RECURSIVE RStrip(_)
RStrip(s) ==
    IF s # <<>> /\ s[Len(s)] \in WhiteSpace THEN RStrip(SubSeq(s, 1, Len(s) - 1)) ELSE s

Strip(s) == RStrip(LStrip(s))

\* str.rstrip("/")
RECURSIVE RStripSlash(_)
RStripSlash(s) ==
    IF s # <<>> /\ s[Len(s)] = "/" THEN RStripSlash(SubSeq(s, 1, Len(s) - 1)) ELSE s

\* str.lower()
LowerChar(c) ==
    IF \E i \in DOMAIN UpperCase : UpperCase[i] = c
    THEN LowerCase[CHOOSE i \in DOMAIN UpperCase : UpperCase[i] = c]
    ELSE c

Lower(s) == [i \in DOMAIN s |-> LowerChar(s[i])]

\* the full-URL test of the code: startswith(("http://", "https://"))
IsFullUrl(s) == StartsWith(s, S_http) \/ StartsWith(s, S_https)

(***************************************************************************)
(* Configuration.                                                          *)
(***************************************************************************)
\* BASE_URL: the default of os.getenv, trailing slashes removed
BASE_URL == RStripSlash(<<"h","t","t","p",":","/","/","l","o","c","a","l","h","o","s","t",":","8","0","0","0">>)

\* request.base_url of the requests the service receives
RequestBaseUrls == { <<"h","t","t","p",":","/","/","h","/">>, <<"h","t","t","p","s",":","/","/","h","/">> }

\* get_base_url(request): a Request is never falsy, so the first branch is taken
get_base_url(request_base_url) ==
    IF request_base_url # <<>> THEN RStripSlash(request_base_url) ELSE BASE_URL

(***************************************************************************)
(* base64.b64decode(s) with validate=False (binascii.a2b_base64): the scan *)
(* skips the characters outside the alphabet, counts the alphabet          *)
(* characters modulo 4 (quad_pos) and the "=" seen since the last alphabet *)
(* character (pads, counted only while quad_pos >= 2); it ends at the      *)
(* first "=" with quad_pos >= 2 and quad_pos + pads >= 4, and raises       *)
(* binascii.Error when the input ends with quad_pos # 0.                   *)
(***************************************************************************)
B64Alphabet == Range(UpperCase) \cup Range(LowerCase) \cup Digits \cup {"+", "/"}

\* quad_pos when the scan reaches position i
QuadPos(s, i) == Cardinality({j \in 1..(i - 1) : s[j] \in B64Alphabet}) % 4

\* pads after the scan has read the "=" at position i
Pads(s, i) ==
    Cardinality({j \in 1..i : s[j] = "=" /\ \A k \in j..i : s[k] \notin B64Alphabet})

PadEnds(s, i) == s[i] = "=" /\ QuadPos(s, i) >= 2 /\ QuadPos(s, i) + Pads(s, i) >= 4

B64DecodeOK(s) ==
    \/ \E i \in DOMAIN s : PadEnds(s, i)
    \/ QuadPos(s, Len(s) + 1) = 0

(***************************************************************************)
(* The disk and uuid4.  fs = [files, uuid, tries, decodes] is threaded     *)
(* through the calls of one request: the files under uploads/images, the   *)
(* number of uuid4() values drawn, and the numbers of file writes and of   *)
(* b64decode calls of the request.  env[k] is what the disk does to the    *)
(* k-th write of the request: "ok", "open_fail" (no file appears) or       *)
(* "write_fail" (the file was created before the write failed).            *)
(***************************************************************************)
DiskOutcomes == {"ok", "open_fail", "write_fail"}

Envs == [1..MaxEnv -> DiskOutcomes]

DiskOutcome(env, k) == IF k \in DOMAIN env THEN env[k] ELSE "ok"

\* uuid.uuid4().hex: 32 hexadecimal digits, a fresh value at every call
UuidHex(n) ==
    [i \in 1..32 |->
        IF i = 32 THEN HexDigits[(n % 16) + 1]
        ELSE IF i = 31 THEN HexDigits[((n \div 16) % 16) + 1]
        ELSE "0"]

(***************************************************************************)
(* detect_image_format                                                     *)
(***************************************************************************)
format_map(format_part) ==
    IF format_part = S_jpeg THEN S_jpg
    ELSE IF format_part = S_jpg THEN S_jpg
    ELSE IF format_part = S_png THEN S_png
    ELSE IF format_part = S_webp THEN S_webp
    ELSE IF format_part = S_gif THEN S_gif
    ELSE S_png

\* variant: the subtype compared without lower-casing
detect_image_format_nolower(base64_data) ==
    IF StartsWith(base64_data, S_dataimage)
    THEN format_map(Split(Split(base64_data, S_semicolon)[1], S_slash)[2])
    ELSE S_png

detect_image_format(base64_data) ==
    IF StartsWith(base64_data, S_dataimage)
    THEN LET format_part == Split(Split(base64_data, S_semicolon)[1], S_slash)[2]
         IN  format_map(Lower(format_part))
    ELSE S_png

(***************************************************************************)
(* save_base64_image: [ok, url, fs]; ok = FALSE is the HTTPException(500). *)
(***************************************************************************)
save_base64_image(base64_data, image_type, base_url, fs, env) ==
    LET payload == IF Contains(base64_data, S_comma)
                   THEN Split1(base64_data, S_comma)[2]
                   ELSE base64_data
        filename == UuidHex(fs.uuid) \o S_dot \o image_type
        k == fs.tries + 1
        disk == DiskOutcome(env, k)
        url_base == IF base_url # <<>> THEN base_url ELSE BASE_URL
        tried == [fs EXCEPT !.decodes = @ + 1]
    IN  IF ~B64DecodeOK(payload)
        THEN [ok |-> FALSE, url |-> <<>>, fs |-> tried]
        ELSE IF disk = "ok"
        THEN [ok |-> TRUE,
              url |-> url_base \o S_uploadsimages \o filename,
              fs |-> [tried EXCEPT !.files = @ \cup {filename}, !.uuid = @ + 1, !.tries = k]]
        ELSE [ok |-> FALSE, url |-> <<>>,
              fs |-> [tried EXCEPT !.files = IF disk = "write_fail" THEN @ \cup {filename} ELSE @,
                                   !.uuid = @ + 1, !.tries = k]]

(***************************************************************************)
(* convert_to_full_url                                                     *)
(***************************************************************************)
convert_to_full_url(relative_url, base_url) ==
    IF relative_url = <<>> THEN relative_url
    ELSE IF IsFullUrl(relative_url) THEN relative_url
    ELSE LET url_base == IF base_url # <<>> THEN base_url ELSE BASE_URL
             rel == IF ~StartsWith(relative_url, S_slash)
                    THEN S_slash \o relative_url
                    ELSE relative_url
         IN  url_base \o rel

(***************************************************************************)
(* Items of the inputs / outputs lists: dictionaries with "type", "data"   *)
(* and (inputs) "name".                                                    *)
(***************************************************************************)
LongLen == 100

Item(type, data, name) == [type |-> type, data |-> data, name |-> name]

IsImage(item) == item.type = "image" /\ item.data # <<>>

\* variant: a relative URL is stored as it came
process_item_keeprelative(item_dict, base_url, fs, env) ==
    IF IsImage(item_dict)
    THEN IF IsFullUrl(item_dict.data) \/ StartsWith(item_dict.data, S_uploads)
         THEN [ok |-> TRUE, item |-> item_dict, fs |-> fs]
         ELSE LET image_format == detect_image_format(item_dict.data)
                  saved == save_base64_image(item_dict.data, image_format, base_url, fs, env)
              IN  IF saved.ok
                  THEN [ok |-> TRUE, item |-> [item_dict EXCEPT !.data = saved.url], fs |-> saved.fs]
                  ELSE [ok |-> FALSE, item |-> item_dict, fs |-> saved.fs]
    ELSE [ok |-> TRUE, item |-> item_dict, fs |-> fs]

\* lines 223-235 of log_generation, the same for inputs and outputs:
\* [ok, item, fs]; ok = FALSE is the exception save_base64_image raised.
process_item(item_dict, base_url, fs, env) ==
    IF IsImage(item_dict)
    THEN IF IsFullUrl(item_dict.data)
         THEN [ok |-> TRUE, item |-> item_dict, fs |-> fs]
         ELSE IF StartsWith(item_dict.data, S_uploads)
         THEN [ok |-> TRUE,
               item |-> [item_dict EXCEPT !.data = convert_to_full_url(item_dict.data, base_url)],
               fs |-> fs]
         ELSE LET image_format == detect_image_format(item_dict.data)
                  saved == save_base64_image(item_dict.data, image_format, base_url, fs, env)
              IN  IF saved.ok
                  THEN [ok |-> TRUE, item |-> [item_dict EXCEPT !.data = saved.url], fs |-> saved.fs]
                  ELSE [ok |-> FALSE, item |-> item_dict, fs |-> saved.fs]
    ELSE [ok |-> TRUE, item |-> item_dict, fs |-> fs]

\* the for loops of log_generation: stops at the first item that raises
RECURSIVE process_items(_, _, _, _)
process_items(items, base_url, fs, env) ==
    IF items = <<>> THEN [ok |-> TRUE, items |-> <<>>, fs |-> fs]
    ELSE Only({ IF ~first.ok THEN [ok |-> FALSE, items |-> <<>>, fs |-> first.fs]
                ELSE Only({ [ok |-> rest.ok, items |-> <<first.item>> \o rest.items, fs |-> rest.fs]
                            : rest \in {process_items(Tail(items), base_url, first.fs, env)} })
                : first \in {process_item(Head(items), base_url, fs, env)} })

(***************************************************************************)
(* normalize_image_data: [raised, item, arg, fs].  item is the value       *)
(* returned, arg the dictionary passed in as it is after the call, raised  *)
(* whether an exception left the function.                                 *)
(***************************************************************************)
\* variant: the repair step left out
repaired_data_norepair(item) == Strip(item.data)

\* lines 292-300: strip, then the repair of a URL embedded in a base64 prefix
repaired_data(item) ==
    LET data == Strip(item.data)
    IN  IF Contains(data, S_dataimage) /\ Contains(data, S_uploadsimages)
        THEN LET url_part == Split(data, S_uploadsimages)
             IN  IF Len(url_part) > 1 THEN S_uploadsimages \o url_part[2] ELSE data
        ELSE data

\* line 315
looks_base64(data) ==
    \/ StartsWith(data, S_dataimage)
    \/ (Len(data) > LongLen /\ ~StartsWith(data, S_slash) /\ ~StartsWith(data, S_httpbare))

\* variant: no except clause around the conversion
convert_base64_item_noexcept(item, data, base_url, fs, env) ==
    LET image_format == detect_image_format(data)
        saved == save_base64_image(data, image_format, base_url, fs, env)
    IN  IF saved.ok
        THEN [raised |-> FALSE, item |-> [item EXCEPT !.data = saved.url], arg |-> item, fs |-> saved.fs]
        ELSE [raised |-> TRUE, item |-> item, arg |-> item, fs |-> saved.fs]

\* lines 317-327: the conversion and its except clause
convert_base64_item(item, data, base_url, fs, env) ==
    LET image_format == detect_image_format(data)
        saved == save_base64_image(data, image_format, base_url, fs, env)
    IN  IF saved.ok
        THEN [raised |-> FALSE, item |-> [item EXCEPT !.data = saved.url], arg |-> item, fs |-> saved.fs]
        ELSE [raised |-> FALSE, item |-> item, arg |-> item, fs |-> saved.fs]

\* variant: the repaired relative URL stored without the base URL
relative_url_item_nobase(item, data, base_url, fs) ==
    [raised |-> FALSE, item |-> [item EXCEPT !.data = data], arg |-> item, fs |-> fs]

\* lines 308-312: the relative URL branch
relative_url_item(item, data, base_url, fs) ==
    [raised |-> FALSE,
     item |-> [item EXCEPT !.data = convert_to_full_url(data, base_url)],
     arg |-> item, fs |-> fs]

normalize_image_data(item, base_url, fs, env) ==
    LET asis == [raised |-> FALSE, item |-> item, arg |-> item, fs |-> fs]
    IN  IF IsImage(item)
        THEN LET data == repaired_data(item)
             IN  IF IsFullUrl(data) THEN asis
                 ELSE IF StartsWith(data, S_uploads) THEN relative_url_item(item, data, base_url, fs)
                 ELSE IF looks_base64(data) THEN convert_base64_item(item, data, base_url, fs, env)
                 ELSE asis
        ELSE asis

(***************************************************************************)
(* The data strings the functions are studied on: every concatenation of   *)
(* at most MaxFrags of these fragments.                                    *)
(***************************************************************************)
F_jpeg == <<"j","p","e","g",";","b","a","s","e","6","4",",","A","A","A","A">>
F_JPEG == <<"J","P","E","G",";","b","a","s","e","6","4",",","A","A","A","A">>
F_jpegx == <<"j","p","e","g","/","x",";","b","a","s","e","6","4",",","A","A","A","A">>
F_gif == <<"g","i","f",",","A","A","=">>
F_rel == <<"/","u","p","l","o","a","d","s","/","i","m","a","g","e","s","/","a",".","p","n","g">>
F_url == <<"h","t","t","p",":","/","/","h","/">>
F_space == <<" ">>
F_abc == <<"a","b","c">>
F_hybrid == <<"d","a","t","a",":","i","m","a","g","e","/","p","n","g",";","b","a","s","e","6","4",",","h","t","t","p",":","/","/","h","/","u","p","l","o","a","d","s","/","i","m","a","g","e","s","/","a",".","p","n","g">>
F_x == <<"/","x">>
F_long100 == [i \in 1..LongLen |-> "A"]
F_long101 == [i \in 1..(LongLen + 1) |-> "A"]
F_long104 == [i \in 1..(LongLen + 4) |-> "A"]

Frags == <<S_dataimage, F_jpeg, F_JPEG, F_jpegx, F_gif, F_rel, F_url, F_space, F_abc,
           F_hybrid, F_x, F_long100, F_long101, F_long104>>

RECURSIVE Concat(_)
Concat(ss) == IF ss = <<>> THEN <<>> ELSE Head(ss) \o Concat(Tail(ss))

DataPool ==
    UNION { {Concat([i \in 1..k |-> Frags[c[i]]]) : c \in [1..k -> DOMAIN Frags]} : k \in 0..MaxFrags }

FnItems ==
    {Item("image", d, <<"n">>) : d \in DataPool} \cup {Item("text", d, None) : d \in {<<>>, F_abc, F_rel}}

EmptyFs == [files |-> {}, uuid |-> 0, tries |-> 0, decodes |-> 0]

Idle == [state |-> "idle"]

NoCall == [fn |-> "none"]

(***************************************************************************)
(* The table and the requests.  A row keeps id, inputs and outputs; the    *)
(* other columns (function_id, processing_time, timestamp, metadata_info,  *)
(* created_at) are copied through by every operation and are left out.     *)
(* Integer primary keys are handed out in order and no row is ever         *)
(* deleted, so the row at position i of store has id i.                    *)
(***************************************************************************)
Row(id, inputs, outputs) == [id |-> id, inputs |-> inputs, outputs |-> outputs]

OutItem(type, data) == [type |-> type, data |-> data]

\* rows written by the earlier versions of the service: inline base64,
\* a truncated payload, a relative URL
LegacyData == {S_dataimage \o F_jpeg, S_dataimage \o F_gif, F_rel}

LegacyStoresOf(Data) ==
    UNION { {[i \in 1..n |-> Row(i, <<Item("image", d[i], <<"n">>)>>, <<>>)] : d \in [1..n -> Data]}
            : n \in 0..MaxLegacy }

LegacyStores == LegacyStoresOf(LegacyData)

\* the items a POST /api/log request may carry
InputItems ==
    {Item("image", S_dataimage \o F_jpeg, <<"n">>), Item("image", F_rel, <<"n">>),
     Item("text", F_abc, None)}

OutputItems == {OutItem("image", F_url \o F_abc), OutItem("image", F_abc)}

SeqsUpTo(S, n) == UNION {[1..k -> S] : k \in 0..n}

LogRequests == [inputs : SeqsUpTo(InputItems, MaxItems), outputs : SeqsUpTo(OutputItems, MaxItems)]

DbOutcomes == {"ok", "commit_fail", "refresh_fail"}

(***************************************************************************)
(* log_generation: [status, cause, store, fs].  Every exception of the     *)
(* body is answered with HTTP 500; the session is closed without a commit. *)
(***************************************************************************)
\* variant: the row is added before the images are processed
log_generation_addfirst(log, request_base_url, rows, fs, env, db) ==
    Only({ Only({ Only({ IF ~ins.ok \/ ~outs.ok
                         THEN [status |-> 500, cause |-> "image", store |-> Append(rows, db_record),
                               fs |-> IF ins.ok THEN outs.fs ELSE ins.fs]
                         ELSE IF db = "commit_fail"
                         THEN [status |-> 500, cause |-> "commit", store |-> rows, fs |-> outs.fs]
                         ELSE [status |-> IF db = "ok" THEN 200 ELSE 500,
                               cause |-> IF db = "ok" THEN "none" ELSE "refresh",
                               store |-> Append(rows, db_record), fs |-> outs.fs]
                         : db_record \in {Row(Len(rows) + 1, ins.items,
                                              IF ins.ok THEN outs.items ELSE <<>>)} })
                  : outs \in {process_items(log.outputs, get_base_url(request_base_url), ins.fs, env)} })
           : ins \in {process_items(log.inputs, get_base_url(request_base_url), fs, env)} })

log_generation(log, request_base_url, rows, fs, env, db) ==
    Only({ IF ~ins.ok
           THEN [status |-> 500, cause |-> "image", store |-> rows, fs |-> ins.fs]
           ELSE Only({ IF ~outs.ok
                       THEN [status |-> 500, cause |-> "image", store |-> rows, fs |-> outs.fs]
                       ELSE IF db = "commit_fail"
                       THEN [status |-> 500, cause |-> "commit", store |-> rows, fs |-> outs.fs]
                       ELSE [status |-> IF db = "ok" THEN 200 ELSE 500,
                             cause |-> IF db = "ok" THEN "none" ELSE "refresh",
                             store |-> Append(rows, Row(Len(rows) + 1, ins.items, outs.items)),
                             fs |-> outs.fs]
                       : outs \in {process_items(log.outputs, get_base_url(request_base_url),
                                                 ins.fs, env)} })
           : ins \in {process_items(log.inputs, get_base_url(request_base_url), fs, env)} })

(***************************************************************************)
(* serialize_log: [raised, log, fs]                                        *)
(***************************************************************************)
RECURSIVE normalize_all(_, _, _, _)
normalize_all(items, base_url, fs, env) ==
    IF items = <<>> THEN [raised |-> FALSE, items |-> <<>>, fs |-> fs]
    ELSE Only({ IF first.raised THEN [raised |-> TRUE, items |-> <<>>, fs |-> first.fs]
                ELSE Only({ [raised |-> rest.raised, items |-> <<first.item>> \o rest.items,
                             fs |-> rest.fs]
                            : rest \in {normalize_all(Tail(items), base_url, first.fs, env)} })
                : first \in {normalize_image_data(Head(items), base_url, fs, env)} })

serialize_log(log, base_url, fs, env) ==
    Only({ IF ins.raised THEN [raised |-> TRUE, log |-> log, fs |-> ins.fs]
           ELSE Only({ [raised |-> outs.raised,
                        log |-> Row(log.id, ins.items, outs.items),
                        fs |-> outs.fs]
                       : outs \in {normalize_all(log.outputs, base_url, ins.fs, env)} })
           : ins \in {normalize_all(log.inputs, base_url, fs, env)} })

RECURSIVE serialize_logs(_, _, _, _)
serialize_logs(logs, base_url, fs, env) ==
    IF logs = <<>> THEN [raised |-> FALSE, logs |-> <<>>, fs |-> fs]
    ELSE Only({ IF first.raised THEN [raised |-> TRUE, logs |-> <<>>, fs |-> first.fs]
                ELSE Only({ [raised |-> rest.raised, logs |-> <<first.log>> \o rest.logs,
                             fs |-> rest.fs]
                            : rest \in {serialize_logs(Tail(logs), base_url, first.fs, env)} })
                : first \in {serialize_log(Head(logs), base_url, fs, env)} })

(***************************************************************************)
(* get_logs                                                                *)
(***************************************************************************)
Min(a, b) == IF a <= b THEN a ELSE b

\* variant: the offset computed from page instead of page - 1
query_logs_skip_page(rows, page, size) ==
    LET skip == page * size
        n == Len(rows)
        last == Min(skip + size, n)
    IN  [k \in 1..(IF last > skip THEN last - skip ELSE 0) |-> rows[n + 1 - (skip + k)]]

\* lines 369-378: order_by(id.desc()).offset(skip).limit(limit).all()
query_logs(rows, page, size) ==
    LET skip == (page - 1) * size
        limit == size
        n == Len(rows)
        last == Min(skip + limit, n)
    IN  [k \in 1..(IF last > skip THEN last - skip ELSE 0) |-> rows[n + 1 - (skip + k)]]

\* lines 380-393, after the two queries: [status, body, fs]
get_logs_answer(page, size, total_records, logs, request_base_url, fs, env) ==
    Only({ IF serialized.raised
           THEN [status |-> 500, body |-> [detail |-> "error"], fs |-> serialized.fs]
           ELSE [status |-> 200,
                 body |-> [total_records |-> total_records, page |-> page, size |-> size,
                           logs |-> serialized.logs],
                 fs |-> serialized.fs]
           : serialized \in {serialize_logs(logs, get_base_url(request_base_url), fs, env)} })

(***************************************************************************)
(* The service: requests arrive in any order; a get_logs request runs its  *)
(* count query and its page query as two steps, and a POST /api/log may be *)
(* served between them.                                                    *)
(***************************************************************************)
Fs == [files |-> files, uuid |-> uuidSeq, tries |-> 0, decodes |-> 0]

InitWith(Stores) ==
    /\ store \in Stores
    /\ files = {} /\ uuidSeq = 0 /\ logged = {}
    /\ calls = [log |-> 0, get |-> 0]
    /\ resp = [kind |-> "none"]
    /\ get = Idle
    /\ pager = Idle /\ fnIn = NoCall /\ fnOut = NoCall /\ bedrock = Idle

Init == InitWith(LegacyStores)

\* POST /api/log with a request of Requests sent to one of Bases, the disk
\* and the database behaving as one of Faults
LogGenerationOf(Requests, Bases, Faults) ==
    /\ calls.log < MaxLogs
    /\ \E log \in Requests, base \in Bases, fault \in Faults :
         \E r \in {log_generation(log, base, store, Fs, fault.env, fault.db)} :
             /\ store' = r.store
             /\ files' = r.fs.files
             /\ uuidSeq' = r.fs.uuid
             /\ logged' = IF r.store # store THEN logged \cup {Len(r.store)} ELSE logged
             /\ resp' = [kind |-> "log", status |-> r.status, cause |-> r.cause,
                         id |-> IF r.status = 200 THEN Len(r.store) ELSE 0,
                         decodes |-> r.fs.decodes,
                         req |-> [log |-> log, base |-> base]]
             /\ get' = IF get.state = "counted" /\ r.store # store
                       THEN [get EXCEPT !.wrote = TRUE] ELSE get
    /\ calls' = [calls EXCEPT !.log = @ + 1]
    /\ UNCHANGED <<pager, fnIn, fnOut, bedrock>>

DiskOk == [k \in 1..MaxEnv |-> "ok"]

\* log_generation stops at the first failure, so what the disk and the
\* database would have done after it does not matter: one fault at most
LogFaults ==
    {[env |-> DiskOk, db |-> db] : db \in DbOutcomes}
    \cup {[env |-> [DiskOk EXCEPT ![k] = o], db |-> "ok"] : k \in 1..MaxEnv, o \in DiskOutcomes \ {"ok"}}

LogGeneration == LogGenerationOf(LogRequests, RequestBaseUrls, LogFaults)

\* the POST requests served while get_logs is studied
FewLogRequests ==
    { [inputs |-> <<Item("image", S_dataimage \o F_jpeg, <<"n">>)>>, outputs |-> <<>>],
      [inputs |-> <<>>, outputs |-> <<OutItem("text", F_abc)>>] }

LogGenerationFew ==
    LogGenerationOf(FewLogRequests, {<<"h","t","t","p",":","/","/","h","/">>},
                    {[env |-> DiskOk, db |-> db] : db \in {"ok", "commit_fail"}})

\* line 372: total_records = db.query(GenerationRecord).count()
GetLogsCount ==
    /\ get.state = "idle"
    /\ calls.get < MaxGets
    /\ \E page \in 1..MaxPage, size \in 1..MaxPage, db \in {"ok", "query_fail"} :
         IF db = "ok"
         THEN /\ get' = [state |-> "counted", page |-> page, size |-> size,
                         total_records |-> Len(store), wrote |-> FALSE]
              /\ UNCHANGED resp
         ELSE /\ resp' = [kind |-> "get", status |-> 500, cause |-> "query"]
              /\ UNCHANGED get
    /\ calls' = [calls EXCEPT !.get = @ + 1]
    /\ UNCHANGED <<store, files, uuidSeq, logged, pager, fnIn, fnOut, bedrock>>

\* lines 374-393: the page query, the serialisation and the answer
GetLogsQuery ==
    /\ get.state = "counted"
    /\ \E base \in RequestBaseUrls, env \in Envs :
         \E r \in {get_logs_answer(get.page, get.size, get.total_records,
                                    query_logs(store, get.page, get.size), base, Fs, env)} :
             /\ files' = r.fs.files
             /\ uuidSeq' = r.fs.uuid
             /\ resp' = [kind |-> "get", status |-> r.status, cause |-> "none",
                         body |-> r.body, wrote |-> get.wrote,
                         req |-> [page |-> get.page, size |-> get.size, base |-> base]]
    /\ get' = Idle
    /\ UNCHANGED <<store, logged, calls, pager, fnIn, fnOut, bedrock>>

Next == LogGenerationFew \/ GetLogsCount \/ GetLogsQuery

Spec == Init /\ [][Next]_vars

\* POST /api/log on its own, with every request of LogRequests, on a table
\* that holds legacy rows with relative URLs
InitLog == InitWith(LegacyStoresOf({F_rel}))

NextLog == LogGeneration

SpecLog == InitLog /\ [][NextLog]_vars

(***************************************************************************)
(* The functions on their own: one call of detect_image_format,            *)
(* normalize_image_data or the item step of log_generation on an argument  *)
(* drawn from the pool, on an empty uploads directory.                     *)
(***************************************************************************)
Rest ==
    /\ store = <<>> /\ files = {} /\ uuidSeq = 0 /\ logged = {}
    /\ calls = [log |-> 0, get |-> 0]
    /\ resp = [kind |-> "none"] /\ get = Idle /\ pager = Idle

InitFn ==
    /\ Rest
    /\ bedrock = Idle
    /\ fnIn \in [item : FnItems, base : RequestBaseUrls]
    /\ fnOut = NoCall

CallDetect ==
    /\ fnIn # NoCall /\ fnOut = NoCall
    /\ fnOut' = [fn |-> "detect_image_format", env |-> None,
                 out |-> detect_image_format(fnIn.item.data)]
    /\ UNCHANGED <<backendVars, pager, fnIn, bedrock>>

CallNormalize ==
    /\ fnIn # NoCall /\ fnOut = NoCall
    /\ \E env \in Envs :
         fnOut' = [fn |-> "normalize_image_data", env |-> env,
                   out |-> normalize_image_data(fnIn.item, get_base_url(fnIn.base), EmptyFs, env)]
    /\ UNCHANGED <<backendVars, pager, fnIn, bedrock>>

CallProcessItem ==
    /\ fnIn # NoCall /\ fnOut = NoCall
    /\ \E env \in Envs :
         fnOut' = [fn |-> "process_item", env |-> env,
                   out |-> process_item(fnIn.item, get_base_url(fnIn.base), EmptyFs, env)]
    /\ UNCHANGED <<backendVars, pager, fnIn, bedrock>>

NextFn == CallDetect \/ CallNormalize \/ CallProcessItem

SpecFn == InitFn /\ [][NextFn]_vars

(***************************************************************************)
(* Vocabulary of the statements about the functions.                       *)
(***************************************************************************)
Called(fn) == fnOut.fn = fn

\* the argument's data, and the data after strip()
ArgData == fnIn.item.data
ArgStripped == Strip(fnIn.item.data)
ArgBase == RStripSlash(fnIn.base)

\* a base64 prefix and an uploads URL in one string
IsHybrid(t) == Contains(t, S_dataimage) /\ Contains(t, S_uploadsimages)

\* the classification of line 315, for data that is neither repaired nor a URL
ClassifiedBase64(t) ==
    /\ ~IsHybrid(t)
    /\ \/ StartsWith(t, S_dataimage)
       \/ (Len(t) > LongLen /\ t[1] # "/" /\ SubSeq(t, 1, 4) # S_httpbare)

\* the part of a data URL that is decoded
PayloadOf(t) ==
    IF \E i \in DOMAIN t : t[i] = ","
    THEN From(t, 1 + CHOOSE i \in DOMAIN t : t[i] = "," /\ \A j \in 1..(i - 1) : t[j] # ",")
    ELSE t

\* index of the first character of s that is in cs, Len(s) + 1 when none is
FirstOf(s, cs) ==
    LET hits == {i \in DOMAIN s : s[i] \in cs}
    IN  IF hits = {} THEN Len(s) + 1 ELSE CHOOSE i \in hits : \A j \in hits : i <= j

ExpectedFormat(subtype) ==
    CASE subtype = S_jpeg -> S_jpg
      [] subtype = S_jpg -> S_jpg
      [] subtype = S_png -> S_png
      [] subtype = S_webp -> S_webp
      [] subtype = S_gif -> S_gif
      [] OTHER -> S_png

\* extension of a file name: the text after its "."
Extension(f) == From(f, FirstOf(f, {"."}) + 1)

C4_FailedConversionSwallowed ==
    Called("normalize_image_data") =>
        /\ ~fnOut.out.raised
        /\ ( /\ IsImage(fnIn.item)
             /\ ClassifiedBase64(ArgStripped)
             /\ (~B64DecodeOK(PayloadOf(ArgStripped)) \/ fnOut.env[1] # "ok") )
           => (fnOut.out.item = fnIn.item /\ fnOut.out.arg = fnIn.item)

\* a long string taken for base64 whose decoding fails, and a data URL
\* whose file write fails, both answered with the item as given
C4_Witness ==
    /\ Called("normalize_image_data") /\ IsImage(fnIn.item)
    /\ ClassifiedBase64(ArgStripped)
    /\ \/ (~B64DecodeOK(PayloadOf(ArgStripped)) /\ ~StartsWith(ArgStripped, S_dataimage))
       \/ (B64DecodeOK(PayloadOf(ArgStripped)) /\ fnOut.env[1] = "write_fail")
    /\ fnOut.out.item = fnIn.item
    /\ ~fnOut.out.raised

(***************************************************************************)
(* C5, as stated: for a string that starts with data:image/ the result is  *)
(* the lower-cased text between the first / and the first ; mapped by the  *)
(* format table; for any other string it is png.                           *)
(***************************************************************************)
C5_SubtypeUpToSemicolon ==
    Called("detect_image_format") =>
        IF StartsWith(ArgData, S_dataimage)
        THEN (\E i \in DOMAIN ArgData : ArgData[i] = ";") =>
                 fnOut.out = ExpectedFormat(Lower(
                     SubSeq(ArgData, FirstOf(ArgData, {"/"}) + 1, FirstOf(ArgData, {";"}) - 1)))
        ELSE fnOut.out = S_png

(***************************************************************************)
(* C5, amended: for a string that starts with data:image/ the result is    *)
(* the lower-cased text between the first / and the next / or ; (or the    *)
(* end of the string), mapped jpeg->jpg, jpg->jpg, png->png, webp->webp,   *)
(* gif->gif and anything else -> png; for any other string it is png.  The *)
(* result is one of jpg, png, webp, gif, and it is the extension of the    *)
(* file save_base64_image writes for that data.                            *)
(***************************************************************************)
C5_SubtypeUpToSlashOrSemicolon ==
    /\ Called("detect_image_format") =>
        /\ fnOut.out \in {S_jpg, S_png, S_webp, S_gif}
        /\ IF StartsWith(ArgData, S_dataimage)
           THEN LET rest == From(ArgData, FirstOf(ArgData, {"/"}) + 1)
                IN  fnOut.out = ExpectedFormat(Lower(SubSeq(rest, 1, FirstOf(rest, {"/", ";"}) - 1)))
           ELSE fnOut.out = S_png
    /\ Called("process_item") =>
        \A f \in fnOut.out.fs.files : Extension(f) = detect_image_format(ArgData)
    /\ Called("normalize_image_data") =>
        \A f \in fnOut.out.fs.files : Extension(f) = detect_image_format(ArgStripped)

\* an upper-case subtype detected, and a file written with that extension
C5_Witness ==
    \/ /\ Called("detect_image_format")
       /\ StartsWith(ArgData, S_dataimage)
       /\ ArgData # Lower(ArgData)
       /\ fnOut.out = S_jpg
    \/ /\ Called("process_item")
       /\ \E f \in fnOut.out.fs.files : Extension(f) = S_jpg

(***************************************************************************)
(* C7, as stated: for an image item whose trimmed data contains both       *)
(* data:image/ and /uploads/images/, the result is a copy of the item      *)
(* whose data is the base URL, /uploads/images/ and the text after the     *)
(* first occurrence of /uploads/images/; nothing is decoded or written,    *)
(* the other fields are kept and the item given is not changed.            *)
(***************************************************************************)
C7_TextAfterFirstOccurrence ==
    (Called("normalize_image_data") /\ IsImage(fnIn.item) /\ IsHybrid(ArgStripped)) =>
        LET t == ArgStripped
            after == From(t, Find(t, S_uploadsimages) + Len(S_uploadsimages))
        IN  /\ fnOut.out.item = [fnIn.item EXCEPT !.data = ArgBase \o S_uploadsimages \o after]
            /\ fnOut.out.fs = EmptyFs
            /\ fnOut.out.arg = fnIn.item

(***************************************************************************)
(* C7, amended: the data of the result is the base URL, /uploads/images/   *)
(* and the text between the first occurrence of /uploads/images/ and the   *)
(* second one (the end of the string when there is no second one); the     *)
(* rest as stated.                                                         *)
(***************************************************************************)
C7_TextUpToSecondOccurrence ==
    (Called("normalize_image_data") /\ IsImage(fnIn.item) /\ IsHybrid(ArgStripped)) =>
        LET t == ArgStripped
            after == From(t, Find(t, S_uploadsimages) + Len(S_uploadsimages))
            next == Find(after, S_uploadsimages)
            between == IF next = 0 THEN after ELSE SubSeq(after, 1, next - 1)
        IN  /\ fnOut.out.item = [fnIn.item EXCEPT !.data = ArgBase \o S_uploadsimages \o between]
            /\ fnOut.out.fs = EmptyFs
            /\ fnOut.out.arg = fnIn.item
            /\ ~fnOut.out.raised

\* a base64 prefix followed by a URL, repaired to the URL of the file
C7_Witness ==
    /\ Called("normalize_image_data") /\ IsImage(fnIn.item)
    /\ StartsWith(ArgStripped, S_dataimage) /\ Contains(ArgStripped, S_uploadsimages)
    /\ fnIn.item.name # None
    /\ fnOut.out.item = [fnIn.item EXCEPT !.data = ArgBase \o F_rel]

(***************************************************************************)
(* Vocabulary of the statements about the service.                         *)
(***************************************************************************)
Max(a, b) == IF a >= b THEN a ELSE b

\* how log_generation is to store item a of a request sent to base
StoredAs(a, b, base) ==
    IF ~IsImage(a) THEN b = a
    ELSE IF IsFullUrl(a.data) THEN b = a
    ELSE IF StartsWith(a.data, S_uploads) THEN b = [a EXCEPT !.data = base \o a.data]
    ELSE \E f \in files : b = [a EXCEPT !.data = base \o S_uploadsimages \o f]

\* an image of the request that has to be decoded and cannot be
Undecodable(item) ==
    /\ IsImage(item)
    /\ ~IsFullUrl(item.data) /\ ~StartsWith(item.data, S_uploads)
    /\ ~B64DecodeOK(PayloadOf(item.data))

HasUndecodable(log) ==
    \/ \E i \in DOMAIN log.inputs : Undecodable(log.inputs[i])
    \/ \E i \in DOMAIN log.outputs : Undecodable(log.outputs[i])

\* the ids of the table, largest first
DescIds ==
    LET ids == {store[i].id : i \in DOMAIN store}
    IN  [k \in 1..Cardinality(ids) |->
            CHOOSE id \in ids : Cardinality({j \in ids : j > id}) = k - 1]

(***************************************************************************)
(* C1: after any sequence of POST /api/log calls, every image item with    *)
(* non-empty data in the inputs and outputs of every row persisted by      *)
(* log_generation holds a full URL; an absolute URL is stored unchanged,   *)
(* data beginning with /uploads as the request's base URL followed by the  *)
(* data, and any other data as the URL of the file written for it.         *)
(***************************************************************************)
C1_LoggedImagesAreFullUrls ==
    /\ \A id \in logged :
         /\ \A i \in DOMAIN store[id].inputs :
              IsImage(store[id].inputs[i]) => IsFullUrl(store[id].inputs[i].data)
         /\ \A i \in DOMAIN store[id].outputs :
              IsImage(store[id].outputs[i]) => IsFullUrl(store[id].outputs[i].data)
    /\ (resp.kind = "log" /\ resp.status = 200) =>
         LET row == store[resp.id]
             log == resp.req.log
             base == RStripSlash(resp.req.base)
         IN  /\ resp.id \in logged
             /\ DOMAIN row.inputs = DOMAIN log.inputs
             /\ DOMAIN row.outputs = DOMAIN log.outputs
             /\ \A i \in DOMAIN log.inputs : StoredAs(log.inputs[i], row.inputs[i], base)
             /\ \A i \in DOMAIN log.outputs : StoredAs(log.outputs[i], row.outputs[i], base)

\* a request with a base64 input and a relative or absolute image logged
C1_Witness ==
    /\ resp.kind = "log" /\ resp.status = 200
    /\ files # {}
    /\ \E i \in DOMAIN resp.req.log.inputs :
         /\ StartsWith(resp.req.log.inputs[i].data, S_dataimage)
         /\ store[resp.id].inputs[i].data # resp.req.log.inputs[i].data
    /\ \E i \in DOMAIN resp.req.log.outputs : IsFullUrl(resp.req.log.outputs[i].data)

(***************************************************************************)
(* C8: when the decoding or the saving of an image of a POST /api/log      *)
(* request fails, or the database write fails, the request is answered     *)
(* with HTTP 500 and the stored rows are those of before the call, even    *)
(* when earlier images of the request were converted.                      *)
(***************************************************************************)
C8_FailedLogAddsNothing ==
    [][ (calls'.log = calls.log + 1) =>
          ( (HasUndecodable(resp'.req.log) \/ resp'.cause \in {"image", "commit"})
              => (resp'.status = 500 /\ store' = store /\ logged' = logged) )
      ]_vars

\* the input was decoded and written, the decoding of the output failed
C8_Witness ==
    /\ resp.kind = "log" /\ resp.status = 500 /\ resp.cause = "image"
    /\ resp.decodes = 2
    /\ files # {}
    /\ logged = {}
    /\ \E i \in DOMAIN resp.req.log.outputs : Undecodable(resp.req.log.outputs[i])

(***************************************************************************)
(* C2: for a get_logs request with page p >= 1 and size s >= 1 against a   *)
(* table of n rows, no row being written during the request, the answer    *)
(* echoes p and s, reports total_records = n, and its logs are the rows at *)
(* positions (p-1)*s+1 .. min(p*s, n) of the table ordered by descending   *)
(* id; hence pages 1 .. ceil(n/s) return every row exactly once.           *)
(***************************************************************************)
C2_PageOfDescendingIds ==
    /\ (resp.kind = "get" /\ resp.status = 200 /\ ~resp.wrote) =>
         LET p == resp.req.page
             s == resp.req.size
             n == Len(store)
             first == (p - 1) * s + 1
             last == Min(p * s, n)
             logs == resp.body.logs
         IN  /\ resp.body.page = p /\ resp.body.size = s
             /\ resp.body.total_records = n
             /\ Len(logs) = Max(0, last - first + 1)
             /\ \A k \in DOMAIN logs : logs[k].id = DescIds[first + k - 1]
    /\ \A s \in 1..MaxPage :
         LET n == Len(store)
             pages == (n + s - 1) \div s
         IN  \A i \in DOMAIN store :
                 Cardinality({pk \in (1..pages) \X (1..s) :
                                 /\ pk[2] \in DOMAIN query_logs(store, pk[1], s)
                                 /\ query_logs(store, pk[1], s)[pk[2]].id = store[i].id}) = 1

\* a second page that holds rows
C2_Witness ==
    /\ resp.kind = "get" /\ resp.status = 200 /\ ~resp.wrote
    /\ resp.req.page = 2
    /\ resp.body.logs # <<>>

(***************************************************************************)
(* C10: get_logs is read-only, whatever the table holds: it changes        *)
(* neither the stored rows nor the files under uploads/images, so the same *)
(* request sent again with no POST /api/log in between gets the same       *)
(* answer.                                                                 *)
(***************************************************************************)
\* the answer held no image left unconverted (no failure was swallowed)
AllImagesAreUrls(logs) ==
    \A k \in DOMAIN logs :
        /\ \A i \in DOMAIN logs[k].inputs :
             IsImage(logs[k].inputs[i]) => IsFullUrl(logs[k].inputs[i].data)
        /\ \A i \in DOMAIN logs[k].outputs :
             IsImage(logs[k].outputs[i]) => IsFullUrl(logs[k].outputs[i].data)

\* the same request, served again now by a healthy disk, gets the same answer
C10_SameAnswerAgain ==
    (resp.kind = "get" /\ resp.status = 200 /\ ~resp.wrote /\ AllImagesAreUrls(resp.body.logs)) =>
        get_logs_answer(resp.req.page, resp.req.size, Len(store),
                        query_logs(store, resp.req.page, resp.req.size),
                        resp.req.base, Fs, DiskOk).body = resp.body

C10_GetLogsReadOnly ==
    /\ [][ (get.state = "counted" /\ get'.state = "idle")
             => (store' = store /\ files' = files) ]_vars
    /\ []C10_SameAnswerAgain

(***************************************************************************)
(* A client that reads the history page by page: get_logs with page = 1,   *)
(* 2, 3, ... and a fixed size, until a page comes back shorter than size,  *)
(* while POST /api/log requests are served between its page requests.      *)
(* Each page request is one whole get_logs call.                           *)
(***************************************************************************)
PagerBase == <<"h","t","t","p",":","/","/","h","/">>

InitPager == InitWith(LegacyStoresOf({F_rel}))

PagerStart ==
    /\ pager.state = "idle"
    /\ \E size \in 1..MaxPage :
         pager' = [state |-> "paging", size |-> size, page |-> 1,
                   snapshot |-> {store[i].id : i \in DOMAIN store}, seen |-> <<>>]
    /\ UNCHANGED <<backendVars, fnIn, fnOut, bedrock>>

PagerFetch ==
    /\ pager.state = "paging"
    /\ \E r \in {get_logs_answer(pager.page, pager.size, Len(store),
                                 query_logs(store, pager.page, pager.size),
                                 PagerBase, Fs, DiskOk)} :
         /\ files' = r.fs.files
         /\ uuidSeq' = r.fs.uuid
         /\ resp' = [kind |-> "get", status |-> r.status, cause |-> "none",
                     body |-> r.body, wrote |-> FALSE,
                     req |-> [page |-> pager.page, size |-> pager.size, base |-> PagerBase]]
         /\ pager' = [pager EXCEPT
                        !.seen = @ \o [k \in DOMAIN r.body.logs |-> r.body.logs[k].id],
                        !.page = @ + 1,
                        !.state = IF Len(r.body.logs) < pager.size THEN "done" ELSE "paging"]
    /\ UNCHANGED <<store, logged, calls, get, fnIn, fnOut, bedrock>>

NextPager == PagerStart \/ PagerFetch \/ LogGenerationFew

SpecPager == InitPager /\ [][NextPager]_vars

\* how many of the pages received hold the row id
TimesSeen(id) == Cardinality({k \in DOMAIN pager.seen : pager.seen[k] = id})

(***************************************************************************)
(* C9, as stated: the client receives every row that existed when it       *)
(* started paging exactly once: no row appears on two pages and none is    *)
(* skipped.                                                                *)
(***************************************************************************)
C9_EachRowExactlyOnce ==
    pager.state # "idle" =>
        /\ \A id \in pager.snapshot : TimesSeen(id) <= 1
        /\ pager.state = "done" => \A id \in pager.snapshot : TimesSeen(id) = 1

(***************************************************************************)
(* C9, amended: the client receives every row that existed when it started *)
(* paging at least once by the time a page comes back shorter than size:   *)
(* none is skipped.  (A row can appear on two pages: every row added       *)
(* between two page requests moves the older rows one position down.)      *)
(***************************************************************************)
C9_NoRowSkipped ==
    pager.state = "done" => \A id \in pager.snapshot : TimesSeen(id) >= 1

\* a row was added between two page requests and an older row came twice
C9_Witness ==
    /\ pager.state = "done"
    /\ calls.log >= 1
    /\ \E id \in pager.snapshot : TimesSeen(id) = 2

(***************************************************************************)
(* The Bedrock script: one invoke_model_with_response_stream call, then    *)
(* the loop over the events of the response body.  An event is the parsed  *)
(* chunk: its type and, for a content_block_delta, the text of its delta   *)
(* when it has one.  "error" stands for an event at which the iteration    *)
(* raises (an exception event of the stream, a chunk that is not JSON).    *)
(***************************************************************************)
\* the delta has no "text" key
NoText == "<absent>"

Events ==
    {[type |-> "content_block_delta", text |-> t] : t \in {"a", "b", NoText}}
    \cup {[type |-> t, text |-> NoText] : t \in {"message_start", "message_stop", "error"}}

Streams == SeqsUpTo(Events, MaxStream)

\* variant: the text of every event is printed, whatever its type
print_chunk_anytype(chunk) == <<IF chunk.text = NoText THEN "" ELSE chunk.text>>

\* lines 53-54: what one event adds to the output
print_chunk(chunk) ==
    IF chunk.type = "content_block_delta"
    THEN <<IF chunk.text = NoText THEN "" ELSE chunk.text>>
    ELSE <<>>

InitBedrock ==
    /\ Rest
    /\ fnIn = NoCall /\ fnOut = NoCall
    /\ bedrock = [state |-> "start", calls |-> 0, body |-> <<>>, pos |-> 0, printed |-> <<>>]

\* lines 46-48
Invoke ==
    /\ bedrock.state = "start"
    /\ \/ \E body \in Streams :
            bedrock' = [bedrock EXCEPT !.state = "streaming", !.calls = @ + 1, !.body = body]
       \/ bedrock' = [bedrock EXCEPT !.state = "failed", !.calls = @ + 1]
    /\ UNCHANGED <<backendVars, pager, fnIn, fnOut>>

\* lines 51-54: one turn of the loop
NextEvent ==
    /\ bedrock.state = "streaming"
    /\ bedrock.pos < Len(bedrock.body)
    /\ LET event == bedrock.body[bedrock.pos + 1]
       IN  bedrock' = IF event.type = "error"
                      THEN [bedrock EXCEPT !.state = "failed", !.pos = @ + 1]
                      ELSE [bedrock EXCEPT !.pos = @ + 1, !.printed = @ \o print_chunk(event)]
    /\ UNCHANGED <<backendVars, pager, fnIn, fnOut>>

\* the for loop ends with the stream, and the script with it
EndOfStream ==
    /\ bedrock.state = "streaming"
    /\ bedrock.pos = Len(bedrock.body)
    /\ bedrock' = [bedrock EXCEPT !.state = "done"]
    /\ UNCHANGED <<backendVars, pager, fnIn, fnOut>>

NextBedrock == Invoke \/ NextEvent \/ EndOfStream

\* the script is a sequential program: it takes its next step
SpecBedrock == InitBedrock /\ [][NextBedrock]_vars /\ WF_vars(NextBedrock)

\* the texts of the content_block_delta events among the first n of the body
RECURSIVE DeltaTexts(_, _)
DeltaTexts(body, n) ==
    IF n = 0 THEN <<>>
    ELSE DeltaTexts(body, n - 1) \o
         (CASE body[n].type = "content_block_delta" /\ body[n].text # NoText -> <<body[n].text>>
            [] body[n].type = "content_block_delta" /\ body[n].text = NoText -> <<"">>
            [] OTHER -> <<>>)

(***************************************************************************)
(* C6: the script makes exactly one invoke_model_with_response_stream      *)
(* call and never another; it prints, in the order of arrival, the text of *)
(* each content_block_delta event (the empty string when the delta has no  *)
(* text) and nothing for the other events; it ends when the stream ends,   *)
(* and an error of the call or of the stream ends it with no other         *)
(* attempt.                                                                *)
(***************************************************************************)
C6_Output ==
    /\ bedrock.calls = IF bedrock.state = "start" THEN 0 ELSE 1
    /\ bedrock.state = "streaming" =>
         bedrock.printed = DeltaTexts(bedrock.body, bedrock.pos)
    /\ bedrock.state = "done" =>
         /\ bedrock.pos = Len(bedrock.body)
         /\ bedrock.printed = DeltaTexts(bedrock.body, Len(bedrock.body))
    /\ bedrock.state = "failed" =>
         /\ bedrock.pos = 0 \/ bedrock.body[bedrock.pos].type = "error"
         /\ bedrock.printed = DeltaTexts(bedrock.body, Max(0, bedrock.pos - 1))

C6_OneCallStreamedOnce ==
    /\ []C6_Output
    /\ [][bedrock.state \in {"done", "failed"} => bedrock' = bedrock]_vars
    /\ <>(bedrock.state \in {"done", "failed"})

\* a stream of a text, a delta without text and another event, read to its end
C6_Witness ==
    /\ bedrock.state = "done"
    /\ Len(bedrock.printed) = 2
    /\ \E k \in DOMAIN bedrock.printed : bedrock.printed[k] = ""
    /\ \E k \in DOMAIN bedrock.body : bedrock.body[k].type = "message_stop"

====
